---- MODULE Spec2Model ----
(***************************************************************************)
(* Model of Hem4V_Version12.py: the terminal project starter.              *)
(* main validates the URL, do_workflow runs the five steps, run_cmd and    *)
(* install_git retry their external operation up to MAX_ATTEMPTS times.    *)
(* Strings are sequences of one-character strings.  External operations    *)
(* (makedirs, rmtree, urlretrieve, subprocess) are nondeterministic in     *)
(* their outcome; the code's reaction to each outcome is deterministic.    *)
(***************************************************************************)
EXTENDS Integers, Sequences, FiniteSets, TLC

\* ------------------------------------------------------------------ bounds
\* largest exit status a launched process reports in the model
MaxExitCode == 2
\* largest number of top-level *.py files in a cloned repository
MaxPyFiles == 2
\* largest number typed at the entry-file prompt
MaxChoice == 3
\* largest number of answers the entry-file prompt rejects
MaxRejects == 1
\* largest number of pieces a URL given to parse_repo_name is built from
MaxPieces == 3

\* ------------------------------------------------------- program constants
MAX_ATTEMPTS == 2

WORKFLOW_STEPS ==
  << "Tworzenie folderu roboczego", "Sprawdzanie/zainstalowanie Gita",
     "Klonowanie repozytorium", "Instalacja zaleznosci",
     "Uruchomienie projektu" >>

\* ----------------------------------------------------------------- strings
RECURSIVE RStrip(_, _)
\* str.rstrip(c): drop every trailing occurrence of the character c
RStrip(s, c) ==
  IF s # << >> /\ s[Len(s)] = c THEN RStrip(SubSeq(s, 1, Len(s) - 1), c) ELSE s

RECURSIVE LStrip(_, _)
LStrip(s, c) ==
  IF s # << >> /\ s[1] = c THEN LStrip(SubSeq(s, 2, Len(s)), c) ELSE s

\* str.strip() on the inputs of the model, whose only whitespace is " "
Strip(s) == LStrip(RStrip(s, " "), " ")

StartsWith(s, p) == Len(s) >= Len(p) /\ SubSeq(s, 1, Len(p)) = p

EndsWith(s, p) == Len(s) >= Len(p) /\ SubSeq(s, Len(s) - Len(p) + 1, Len(s)) = p

RECURSIVE LastSegment(_)
\* s.split('/')[-1]: what follows the last "/" (all of s when there is none)
LastSegment(s) ==
  IF s = << >> THEN << >>
  ELSE IF s[Len(s)] = "/" THEN << >>
  ELSE Append(LastSegment(SubSeq(s, 1, Len(s) - 1)), s[Len(s)])

DotGit == << ".", "g", "i", "t" >>

\* mutant: trailing slashes are not stripped
parse_repo_name_KeepSlash(repo_url) ==
  LET name == LastSegment(repo_url)
  IN  IF EndsWith(name, DotGit) THEN SubSeq(name, 1, Len(name) - 4) ELSE name

parse_repo_name(repo_url) ==
  LET name == LastSegment(RStrip(repo_url, "/"))
  IN  IF EndsWith(name, DotGit) THEN SubSeq(name, 1, Len(name) - 4) ELSE name

\* the command-line arguments the model is run with: "http://h/r.git ",
\* "http://h/..", "http/logs", "ftp://h/r", " " and ""
ArgUrls ==
  { << "h","t","t","p",":","/","/","h","/","r",".","g","i","t"," " >>,
    << "h","t","t","p",":","/","/","h","/",".","." >>,
    << "h","t","t","p","/","l","o","g","s" >>,
    << "f","t","p",":","/","/","h","/","r" >>,
    << " " >>,
    << >> }

\* the arguments parse_repo_name is applied to on its own: "http://h/"
\* followed by up to MaxPieces pieces, each "/", ".git", "x" or "."
Pieces == { << "/" >>, DotGit, << "x" >>, << "." >> }

RECURSIVE Flatten(_)
Flatten(ps) == IF ps = << >> THEN << >> ELSE Head(ps) \o Flatten(Tail(ps))

ParseUrls ==
  { << "h","t","t","p",":","/","/","h","/" >> \o Flatten(ps) :
      ps \in UNION { [1 .. n -> Pieces] : n \in 0 .. MaxPieces } }

\* ------------------------------------------------------------------- state
VARIABLES
  pc,          \* position of the program
  argv1,       \* sys.argv[1] as typed
  repo_url,    \* main's repo_url after strip()
  step_idx,    \* do_workflow's completed-step counter
  progressLog, \* the step numbers printed by progress(), in order
  onPath,      \* tool -> whether shutil.which finds it
  workdir,     \* whether WORKDIR exists
  logdir,      \* whether LOGDIR = WORKDIR/logs exists
  repo_name,   \* do_workflow's repo_name (<< >> before line 188)
  target,      \* the directory WORKDIR/repo_name: "absent", "stale", "fresh"
  req,         \* target holds requirements.txt
  pkg,         \* target holds package.json
  pyfiles,     \* the top-level *.py files of target
  cmd,         \* the command run_cmd is running ("none" outside run_cmd)
  attempt,     \* run_cmd's / install_git's loop variable
  attempts,    \* outcomes of the attempts of the current run_cmd call
  ret,         \* << >> or <<value returned by the last run_cmd call>>
  tempFile,    \* whether the downloaded installer file exists
  entry_py,    \* the entry file resolved in step 5 (<< >> when none)
  listing,     \* pyfiles as listed by glob at the prompt
  rejects,     \* number of answers the prompt has rejected
  answer,      \* the last line typed at the prompt
  ops,         \* external operations performed so far, in order
  errs,        \* the errors reported with log_error
  failed,      \* the operations whose final outcome was a failure
  doneMsg      \* whether "Gotowe!" was logged

vars == << pc, argv1, repo_url, step_idx, progressLog, onPath, workdir, logdir,
           repo_name, target, req, pkg, pyfiles, cmd, attempt, attempts, ret,
           tempFile, entry_py, listing, rejects, answer, ops, errs, failed,
           doneMsg >>

dirVars  == << workdir, logdir >>
fsVars   == << target, req, pkg, pyfiles >>
cmdVars  == << cmd, attempt, attempts, ret >>
stepVars == << step_idx, progressLog >>

Tools == { "git", "python", "npm" }
ExitCodes == 0 .. MaxExitCode

Init ==
  /\ pc = "main"
  /\ argv1 \in ArgUrls
  /\ repo_url = << >>
  /\ step_idx = 0
  /\ progressLog = << >>
  /\ onPath \in [Tools -> BOOLEAN]
  /\ workdir \in BOOLEAN
  /\ logdir \in BOOLEAN
  /\ logdir => workdir
  /\ repo_name = << >>
  /\ target \in { "absent", "stale" }
  /\ target = "stale" => workdir
  /\ req = FALSE
  /\ pkg = FALSE
  /\ pyfiles = {}
  /\ cmd = "none"
  /\ attempt = 0
  /\ attempts = << >>
  /\ ret = << >>
  /\ tempFile = FALSE
  /\ entry_py = << >>
  /\ listing = << >>
  /\ rejects = 0
  /\ answer = << >>
  /\ ops = << >>
  /\ errs = {}
  /\ failed = {}
  /\ doneMsg = FALSE

\* ----------------------------------------------------------------- helpers
\* mutant: every tool is taken to be installed
check_exe_Assumed(tool) == TRUE

check_exe(tool) == onPath[tool]

\* mutant: the last attempt is never recognised in time
LastAttempt_OffByOne(a) == a = MAX_ATTEMPTS + 1

\* `if attempt == MAX_ATTEMPTS` (66, 80, 120, 130)
LastAttempt(a) == a = MAX_ATTEMPTS

\* mutant: the exit code of the command is not looked at
Failed_Ignored(exit_code) == FALSE

\* `exit_code != 0` (200, 216, 225)
Failed(exit_code) == exit_code # 0

\* os.path.exists(target_dir) (190)
Exists(t) == t # "absent"

\* mutant: package.json is looked for first
Detect_NodeFirst(r, p) == IF p THEN "node" ELSE IF r THEN "python" ELSE "none"

\* mutant: a project without requirements.txt is taken for a Node project
Detect_NodeDefault(r, p) == IF r THEN "python" ELSE "node"

\* the branch taken at lines 210 / 219 / 228 and again at 236 / 244
Detect(r, p) == IF r THEN "python" ELSE IF p THEN "node" ELSE "none"

\* log_error(msg): the error is printed (its write to the log file is WriteLog)
log_error(tag) == errs' = errs \cup { tag }

\* write_logfile (24-30), called by log and log_error: os.makedirs(LOGDIR,
\* exist_ok=True) creates WORKDIR and LOGDIR unless it fails, the line is
\* appended unless open or write fails, and every exception is swallowed
WriteLog ==
  /\ logdir' \in (IF logdir THEN { TRUE } ELSE BOOLEAN)
  /\ workdir' = (workdir \/ logdir')

\* `not repo_url or not repo_url.startswith("http")` (261), negated
AcceptsUrl(u) == u # << >> /\ StartsWith(u, << "h","t","t","p" >>)

\* where target_dir = os.path.join(WORKDIR, repo_name) (189) lies: the parent
\* of WORKDIR, WORKDIR itself, LOGDIR, or another entry of WORKDIR
Place(name) ==
  IF name = << ".", "." >> THEN "parent"
  ELSE IF name = << >> \/ name = << "." >> THEN "root"
  ELSE IF name = << "l", "o", "g", "s" >> THEN "logs"
  ELSE "sub"

\* the directory target_dir: "absent", "fresh" (created by this run's clone)
\* or "stale" (there without this run's clone)
TargetState(name) ==
  CASE Place(name) = "parent" -> "stale"
    [] Place(name) = "root" -> IF workdir THEN "stale" ELSE "absent"
    [] Place(name) = "logs" -> IF logdir THEN "stale" ELSE "absent"
    [] OTHER -> target

\* mutant: no handler around the steps, the exception leaves do_workflow
HandlerPc_Missing == "crashed"

\* where an exception raised in the try block of do_workflow ends: the
\* handler of lines 251-253 logs it and do_workflow returns
HandlerPc == "aborted"

\* mutant: the step is counted but not reported
StepDone_Silent ==
  /\ step_idx' = step_idx + 1
  /\ progressLog' = progressLog

\* step_idx += 1 followed by progress()
StepDone ==
  /\ step_idx' = step_idx + 1
  /\ progressLog' = Append(progressLog, step_idx + 1)

\* an early "return" of do_workflow after the failure of operation op
Abort(op) ==
  /\ pc' = "aborted"
  /\ failed' = failed \cup { op }

\* -------------------------------------------------------------------- main
main ==
  /\ pc = "main"
  /\ repo_url' = Strip(argv1)
  /\ IF AcceptsUrl(Strip(argv1))
     THEN /\ pc' = "prepare"
          /\ UNCHANGED << errs, dirVars >>
     ELSE /\ log_error("bad_url")
          /\ WriteLog
          /\ pc' = "rejected"
  /\ UNCHANGED << argv1, stepVars, onPath, fsVars, cmdVars, tempFile, entry_py,
                  listing, rejects, answer, repo_name, ops, failed, doneMsg >>

\* ------------------------------------------- do_workflow, step 1 (173-177)
\* progress(), log, os.makedirs(WORKDIR, exist_ok=True): it cannot fail when
\* WORKDIR is there already; an exception reaches the handler of lines
\* 251-253
Prepare ==
  /\ pc = "prepare"
  /\ ops' = Append(ops, "makedirs")
  /\ \/ /\ logdir' \in (IF logdir THEN { TRUE } ELSE BOOLEAN)
        /\ workdir' = TRUE
        /\ step_idx' = step_idx + 1
        /\ progressLog' = progressLog \o << step_idx, step_idx + 1 >>
        /\ pc' = "ensure_git"
        /\ UNCHANGED << errs, failed >>
     \/ /\ ~workdir
        /\ UNCHANGED dirVars
        /\ progressLog' = Append(progressLog, step_idx)
        /\ log_error("exception")
        /\ pc' = HandlerPc
        /\ failed' = failed \cup { "makedirs" }
        /\ step_idx' = step_idx
  /\ UNCHANGED << argv1, repo_url, onPath, target, req, pkg, pyfiles, cmdVars,
                  tempFile, entry_py, listing, rejects, answer, repo_name,
                  doneMsg >>

\* ------------------------------------- step 2 (180-185), ensure_git (84-89)
EnsureGit ==
  /\ pc = "ensure_git"
  /\ WriteLog
  /\ ops' = Append(ops, "check_git")
  /\ IF check_exe("git")
     THEN /\ StepDone
          /\ pc' = "clone_prep"
          /\ attempt' = attempt
     ELSE /\ pc' = "ig_download"
          /\ attempt' = 1
          /\ UNCHANGED stepVars
  /\ UNCHANGED << argv1, repo_url, onPath, fsVars, cmd, attempts, ret, tempFile,
                  entry_py, listing, rejects, answer, repo_name, errs, failed, doneMsg >>

\* install_git (49-82): a failed attempt is reported; the last one returns
\* False to ensure_git and do_workflow reports and returns (181-183)
IgFailure(tag) ==
  IF LastAttempt(attempt)
  THEN /\ errs' = errs \cup { tag, "git_failed" }
       /\ Abort("ensure_git")
       /\ attempt' = attempt
  ELSE /\ errs' = errs \cup { tag }
       /\ pc' = "ig_download"
       /\ attempt' = attempt + 1
       /\ failed' = failed

\* urllib.request.urlretrieve(git_url, temp_path) (54-56)
IgDownload ==
  /\ pc = "ig_download"
  /\ WriteLog
  /\ \E ok \in BOOLEAN :
       IF ok
       THEN /\ ops' = Append(ops, "download_ok")
            /\ tempFile' = TRUE
            /\ pc' = "ig_install"
            /\ UNCHANGED << attempt, errs, failed >>
       ELSE /\ ops' = Append(ops, "download_exc")
            /\ IgFailure("git_exception")
            /\ tempFile' = tempFile
  /\ UNCHANGED << argv1, repo_url, stepVars, onPath, fsVars, cmd, attempts, ret,
                  entry_py, listing, rejects, answer, repo_name, doneMsg >>

\* subprocess.run([temp_path, "/VERYSILENT", "/NORESTART"]) (57-69)
IgInstall ==
  /\ pc = "ig_install"
  /\ WriteLog
  /\ \/ \E code \in ExitCodes :
          IF code = 0
          THEN /\ ops' = Append(ops, "installer_exit0")
               /\ pc' = "ig_remove"
               /\ UNCHANGED << attempt, errs, failed >>
          ELSE /\ ops' = Append(ops, "installer_nonzero")
               /\ IgFailure("git_install_exit")
     \/ /\ ops' = Append(ops, "installer_exc")
        /\ IgFailure("git_exception")
  /\ UNCHANGED << argv1, repo_url, stepVars, onPath, fsVars, cmd, attempts, ret,
                  tempFile, entry_py, listing, rejects, answer, repo_name, doneMsg >>

\* os.remove(temp_path); return True (70-72), then lines 184-185
IgRemove ==
  /\ pc = "ig_remove"
  /\ WriteLog
  /\ \E ok \in BOOLEAN :
       IF ok
       THEN /\ ops' = Append(ops, "remove_ok")
            /\ tempFile' = FALSE
            /\ StepDone
            /\ pc' = "clone_prep"
            /\ UNCHANGED << attempt, errs, failed >>
       ELSE /\ ops' = Append(ops, "remove_exc")
            /\ IgFailure("git_exception")
            /\ UNCHANGED << tempFile, stepVars >>
  /\ UNCHANGED << argv1, repo_url, onPath, fsVars, cmd, attempts, ret,
                  entry_py, listing, rejects, answer, repo_name, doneMsg >>

\* ------------------------------------------------------- run_cmd (109-132)
\* what one pass of the try block can produce: Popen raises, an exception is
\* raised after the launch (reading or logging the output, 114-116), or the
\* process is waited for and its returncode read
Outcomes ==
  [ kind : { "exit" }, code : ExitCodes ]
    \cup [ kind : { "launch_exc", "stream_exc" }, code : { 0 } ]

Exited(o, c) == o.kind = "exit" /\ o.code = c
ExitedNonZero(o) == o.kind = "exit" /\ o.code # 0

\* mutant: the status of the first attempt is returned
RunCmdResult_First(os) ==
  LET o == os[1] IN IF o.kind = "exit" THEN o.code ELSE -1

\* the value run_cmd returns after the attempts os: 0 (125), the returncode of
\* the last attempt (121) or -1 (131)
RunCmdResult(os) ==
  LET o == os[Len(os)] IN IF o.kind = "exit" THEN o.code ELSE -1

\* the call run_cmd(c, ...): log line 110, first pass of the loop is next
EnterRunCmd(c) ==
  /\ cmd' = c
  /\ attempt' = 1
  /\ attempts' = << >>
  /\ ret' = << >>
  /\ pc' = "run_cmd"

\* the statement following each call of run_cmd
RetSite(c) ==
  CASE c = "clone" -> "clone_ret"
    [] c \in { "pip", "npm_install" } -> "install_ret"
    [] OTHER -> "run_ret"

\* the files of the cloned repository
PyNames == { "main.py", "app.py", "index.py", "a.py", "b.py" }
Contents == { fs \in SUBSET PyNames : Cardinality(fs) <= MaxPyFiles }

\* cwd of the commands: WORKDIR for the clone (199), target_dir for the others
CwdExists ==
  IF cmd = "clone" THEN workdir ELSE TargetState(repo_name) # "absent"

\* one pass of the loop of run_cmd.  Popen raises when cwd does not exist.
\* A clone that exits with 0 has created the target directory if it was not
\* there; a clone attempt that does not exit with 0 leaves no directory
\* behind (git removes what it created).
RunCmdAttempt ==
  /\ pc = "run_cmd"
  /\ \E o \in Outcomes :
       /\ o.kind = "launch_exc" \/ CwdExists
       /\ attempts' = Append(attempts, o)
       /\ ops' = Append(ops, cmd)
       /\ IF Exited(o, 0)
          THEN /\ ret' = << RunCmdResult(Append(attempts, o)) >>
               /\ pc' = RetSite(cmd)
               /\ UNCHANGED << attempt, errs, failed >>
          ELSE /\ log_error("run_cmd_error")
               /\ IF LastAttempt(attempt)
                  THEN /\ ret' = << RunCmdResult(Append(attempts, o)) >>
                       /\ pc' = RetSite(cmd)
                       /\ attempt' = attempt
                       /\ failed' = failed \cup { cmd }
                  ELSE /\ attempt' = attempt + 1
                       /\ UNCHANGED << ret, pc, failed >>
       /\ IF cmd = "clone" /\ Exited(o, 0) /\ TargetState(repo_name) = "absent"
          THEN /\ target' = IF Place(repo_name) = "sub" THEN "fresh" ELSE target
               /\ req' \in BOOLEAN
               /\ pkg' \in BOOLEAN
               /\ pyfiles' \in Contents
               /\ logdir' \in (IF logdir \/ Place(repo_name) = "logs"
                               THEN { TRUE } ELSE BOOLEAN)
               /\ workdir' = TRUE
          ELSE /\ UNCHANGED << target, req, pkg, pyfiles >>
               /\ WriteLog
  /\ UNCHANGED << argv1, repo_url, stepVars, onPath, cmd, tempFile,
                  entry_py, listing, rejects, answer, repo_name, doneMsg >>

\* what the caller does with the value run_cmd returned, then forgets
ForgetCall ==
  /\ cmd' = "none"
  /\ attempts' = << >>
  /\ ret' = << >>
  /\ attempt' = attempt

\* ------------------------------------------- do_workflow, step 3 (188-205)
\* parse_repo_name, os.path.exists(target_dir), shutil.rmtree(target_dir),
\* then the call of run_cmd(["git", "clone", repo_url], cwd=WORKDIR)
ClonePrep ==
  /\ pc = "clone_prep"
  /\ repo_name' = parse_repo_name(repo_url)
  /\ LET place == Place(parse_repo_name(repo_url))
     IN  IF Exists(TargetState(parse_repo_name(repo_url)))
         THEN /\ ops' = Append(ops, "rmtree")
              /\ \/ /\ target' = IF place = "logs" THEN target ELSE "absent"
                    /\ req' = FALSE
                    /\ pkg' = FALSE
                    /\ pyfiles' = {}
                    \* the log calls of lines 198 and 110 follow the removal
                    /\ \E written \in BOOLEAN :
                         /\ logdir' = (written \/ (logdir /\ place = "sub"))
                         /\ workdir' = (written \/ (workdir /\ place \in { "sub", "logs" }))
                    /\ EnterRunCmd("clone")
                    /\ UNCHANGED << errs, failed >>
                 \/ /\ log_error("rmtree_failed")
                    /\ Abort("rmtree")
                    /\ WriteLog
                    /\ UNCHANGED << target, req, pkg, pyfiles, cmdVars >>
         ELSE /\ EnterRunCmd("clone")
              /\ WriteLog
              /\ UNCHANGED << ops, target, req, pkg, pyfiles, errs, failed >>
  /\ UNCHANGED << argv1, repo_url, stepVars, onPath, tempFile,
                  entry_py, listing, rejects, answer, doneMsg >>

\* lines 200-205
CloneRet ==
  /\ pc = "clone_ret"
  /\ WriteLog
  /\ IF Failed(ret[1])
     THEN /\ log_error("clone_failed")
          /\ Abort("clone")
          /\ UNCHANGED stepVars
     ELSE /\ StepDone
          /\ pc' = "install_deps"
          /\ UNCHANGED << errs, failed >>
  /\ ForgetCall
  /\ UNCHANGED << argv1, repo_url, onPath, fsVars, tempFile, entry_py, listing,
                  rejects, answer, repo_name, ops, doneMsg >>

\* ------------------------------------------- do_workflow, step 4 (208-233)
\* isfile(req_path) / isfile(pkg_path), ensure_python (91-98) or ensure_npm
\* (100-107), then the call of run_cmd with the install command
InstallDeps ==
  /\ pc = "install_deps"
  /\ WriteLog
  /\ LET kind == Detect(req, pkg)
         tool == IF kind = "python" THEN "python" ELSE "npm"
     IN  IF kind = "none"
         THEN /\ log_error("no_stack")
              /\ Abort("detect")
              /\ UNCHANGED << ops, cmdVars >>
         ELSE /\ ops' = Append(ops, IF kind = "python" THEN "check_python"
                                                       ELSE "check_npm")
              /\ IF check_exe(tool)
                 THEN /\ EnterRunCmd(IF kind = "python" THEN "pip"
                                                        ELSE "npm_install")
                      /\ UNCHANGED << errs, failed >>
                 ELSE /\ log_error(IF kind = "python" THEN "python_missing"
                                                      ELSE "npm_missing")
                      /\ Abort(IF kind = "python" THEN "check_python"
                                                  ELSE "check_npm")
                      /\ UNCHANGED cmdVars
  /\ UNCHANGED << argv1, repo_url, stepVars, onPath, fsVars, tempFile,
                  entry_py, listing, rejects, answer, repo_name, doneMsg >>

\* lines 216-218 / 225-227, then 232-233
InstallRet ==
  /\ pc = "install_ret"
  /\ WriteLog
  /\ IF Failed(ret[1])
     THEN /\ log_error(IF cmd = "pip" THEN "pip_failed" ELSE "npm_failed")
          /\ Abort(cmd)
          /\ UNCHANGED stepVars
     ELSE /\ StepDone
          /\ pc' = "run_step"
          /\ UNCHANGED << errs, failed >>
  /\ ForgetCall
  /\ UNCHANGED << argv1, repo_url, onPath, fsVars, tempFile, entry_py, listing,
                  rejects, answer, repo_name, ops, doneMsg >>

\* mutant: the conventional names are tried in the opposite order
candidates_Reversed == << "index.py", "app.py", "main.py" >>

\* ------------------------------------------ find_python_entrypoint (140-162)
candidates == << "main.py", "app.py", "index.py" >>

\* the orders in which glob can list the files fs
Listings(fs) ==
  { l \in [1 .. Cardinality(fs) -> fs] : \A f \in fs : \E i \in DOMAIN l : l[i] = f }

\* lines 141-145: the first candidate that is a file, << >> when none is
FirstCandidate(fs) ==
  IF \E i \in 1 .. Len(candidates) : candidates[i] \in fs
  THEN << candidates[CHOOSE i \in 1 .. Len(candidates) :
                       /\ candidates[i] \in fs
                       /\ \A j \in 1 .. i - 1 : candidates[j] \notin fs] >>
  ELSE << >>

\* lines 247-249: step_idx += 1, progress(), log("Gotowe!")
Finish ==
  /\ StepDone
  /\ doneMsg' = TRUE
  /\ pc' = "done"

\* ------------------------------------------- do_workflow, step 5 (236-249)
RunStep ==
  /\ pc = "run_step"
  /\ WriteLog
  /\ LET kind == Detect(req, pkg)
     IN  IF kind = "python"
         THEN IF FirstCandidate(pyfiles) # << >>
              THEN /\ entry_py' = FirstCandidate(pyfiles)
                   /\ EnterRunCmd("python_entry")
                   /\ UNCHANGED << listing, errs, failed, stepVars, doneMsg >>
              ELSE IF Cardinality(pyfiles) = 1
              THEN /\ entry_py' = << CHOOSE f \in pyfiles : TRUE >>
                   /\ EnterRunCmd("python_entry")
                   /\ UNCHANGED << listing, errs, failed, stepVars, doneMsg >>
              ELSE IF Cardinality(pyfiles) > 1
              THEN /\ listing' \in Listings(pyfiles)
                   /\ pc' = "prompt"
                   /\ UNCHANGED << entry_py, cmdVars, errs, failed, stepVars,
                                   doneMsg >>
              ELSE /\ log_error("no_entry")
                   /\ failed' = failed \cup { "entry" }
                   /\ Finish
                   /\ UNCHANGED << entry_py, listing, cmdVars >>
         ELSE IF kind = "node"
         THEN /\ EnterRunCmd("npm_start")
              /\ UNCHANGED << entry_py, listing, errs, failed, stepVars,
                              doneMsg >>
         ELSE /\ Finish
              /\ UNCHANGED << entry_py, listing, cmdVars, errs, failed >>
  /\ UNCHANGED << argv1, repo_url, onPath, fsVars, tempFile, rejects, answer, repo_name, ops >>

\* int(text) for the answers of the model: the value of a single decimal
\* digit; << >> stands for the ValueError int() raises on anything else
Digits == << "0", "1", "2", "3", "4", "5", "6", "7", "8", "9" >>

ParseInt(text) ==
  IF Len(text) = 1 /\ \E d \in 1 .. Len(Digits) : Digits[d] = text[1]
  THEN << (CHOOSE d \in 1 .. Len(Digits) : Digits[d] = text[1]) - 1 >>
  ELSE << >>

\* what can be typed at the prompt: a digit up to MaxChoice, "x", or nothing
Answers == { << Digits[d + 1] >> : d \in 0 .. MaxChoice } \cup { << "x" >>, << >> }

\* mutant: the options are counted from the end of the list
Picked_FromEnd(l, k) == l[Len(l) - k + 1]

\* pyfiles[choice-1] (157): the choice-th option displayed
Picked(l, k) == l[k]

\* `1 <= choice <= len(pyfiles)` (156)
ValidChoice(choice, n) == 1 <= choice /\ choice <= n

\* one round of the loop of lines 153-160
Prompt ==
  /\ pc = "prompt"
  /\ \E typed \in Answers :
       LET choice == ParseInt(typed)
       IN  /\ answer' = typed
           /\ IF choice # << >> /\ ValidChoice(choice[1], Len(listing))
              THEN /\ entry_py' = << Picked(listing, choice[1]) >>
                   /\ EnterRunCmd("python_entry")
                   /\ rejects' = rejects
              ELSE /\ rejects < MaxRejects
                   /\ rejects' = rejects + 1
                   /\ UNCHANGED << entry_py, cmdVars, pc >>
  /\ UNCHANGED << argv1, repo_url, stepVars, onPath, dirVars, fsVars, tempFile,
                  listing, repo_name, ops, errs, failed, doneMsg >>

\* the value of the run command is dropped (240, 246), then lines 247-249
RunRet ==
  /\ pc = "run_ret"
  /\ WriteLog
  /\ Finish
  /\ ForgetCall
  /\ UNCHANGED << argv1, repo_url, onPath, fsVars, tempFile, entry_py, listing,
                  rejects, answer, repo_name, ops, errs, failed >>

Next ==
  \/ main
  \/ Prepare
  \/ EnsureGit
  \/ IgDownload
  \/ IgInstall
  \/ IgRemove
  \/ ClonePrep
  \/ RunCmdAttempt
  \/ CloneRet
  \/ InstallDeps
  \/ InstallRet
  \/ RunStep
  \/ Prompt
  \/ RunRet

Spec == Init /\ [][Next]_vars

\* ------------------------------------ the project directory between steps
\* Between the tests of lines 210/221 and those of lines 236/244 the files
\* requirements.txt and package.json can appear or disappear: pip install and
\* npm install run the project's own scripts in target_dir, and other
\* processes can write there.
ManifestChange ==
  /\ pc = "run_step"
  /\ req' \in BOOLEAN
  /\ pkg' \in BOOLEAN
  /\ << req', pkg' >> # << req, pkg >>
  /\ UNCHANGED << pc, argv1, repo_url, stepVars, onPath, dirVars, target,
                  pyfiles, cmdVars, tempFile, entry_py, listing, rejects, answer,
                  repo_name, ops, errs, failed, doneMsg >>

NextEnv ==
  \/ Next
  \/ ManifestChange

SpecEnv == Init /\ [][NextEnv]_vars

\* ================================================================== claims
RetSites == { "clone_ret", "install_ret", "run_ret" }
Returned == pc \in RetSites
LastOutcome == attempts[Len(attempts)]

\* C1: every call of run_cmd launches the process at most MAX_ATTEMPTS times,
\* and an attempt that exited with status 0 is the last attempt of its call.
C1_BoundedAttempts ==
  /\ Len(attempts) <= MAX_ATTEMPTS
  /\ \A i \in 1 .. Len(attempts) - 1 : ~Exited(attempts[i], 0)
  /\ pc = "run_cmd" => \A i \in 1 .. Len(attempts) : ~Exited(attempts[i], 0)

\* a call that used both attempts and returned after the second one exited 0
C1_Witness ==
  /\ Returned
  /\ Len(attempts) = MAX_ATTEMPTS
  /\ ExitedNonZero(attempts[1])
  /\ Exited(attempts[2], 0)

\* C4: when run_cmd returns after a last attempt that ran and exited non-zero,
\* all MAX_ATTEMPTS attempts were made (every earlier non-zero exit led to
\* another attempt) and the value returned is that last attempt's status.
C4_LastStatusReturned ==
  /\ Returned /\ ExitedNonZero(LastOutcome)
       => Len(attempts) = MAX_ATTEMPTS /\ ret = << LastOutcome.code >>
  /\ pc = "run_cmd" /\ attempts # << >> => attempt = Len(attempts) + 1

\* two attempts with different non-zero statuses: the second one is returned
C4_Witness ==
  /\ Returned
  /\ Len(attempts) = MAX_ATTEMPTS
  /\ Exited(attempts[1], 1)
  /\ Exited(attempts[2], 2)
  /\ ret = << 2 >>

\* C5: run_cmd returns the sentinel -1 exactly when its attempts ended on a
\* launch exception, so -1 is never returned for a process that was launched
\* and ran, and a launch exception is retried like a non-zero exit.
C5_SentinelMeansNotLaunched ==
  Returned =>
    /\ (ret = << -1 >>) <=> (LastOutcome.kind = "launch_exc")
    /\ LastOutcome.kind = "launch_exc" => Len(attempts) = MAX_ATTEMPTS

\* C8: the completed-step counter starts at 0, only ever grows by exactly 1,
\* never exceeds the number of workflow steps, and the reports printed by
\* progress() are 0, 1, ..., step_idx, each exactly once and in order.
C8_StepsInOrder ==
  /\ [](/\ step_idx \in 0 .. Len(WORKFLOW_STEPS)
        /\ Len(progressLog) \in { 0, step_idx + 1 }
        /\ \A i \in 1 .. Len(progressLog) : progressLog[i] = i - 1
        /\ pc \in { "main", "prepare", "rejected" } => step_idx = 0)
  /\ [][step_idx' \in { step_idx, step_idx + 1 }]_vars

\* a run that reported all six values
C8_Witness ==
  /\ step_idx = Len(WORKFLOW_STEPS)
  /\ progressLog = << 0, 1, 2, 3, 4, 5 >>

InOps(op) == \E i \in 1 .. Len(ops) : ops[i] = op
CountOps(S) == Cardinality({ i \in 1 .. Len(ops) : ops[i] \in S })

\* the place of each external operation in the text of do_workflow
OpRank(op) ==
  CASE op = "makedirs" -> 1
    [] op = "check_git" -> 2
    [] op \in { "download_ok", "download_exc", "installer_exit0",
                "installer_nonzero", "installer_exc", "remove_ok",
                "remove_exc" } -> 3
    [] op = "rmtree" -> 4
    [] op = "clone" -> 5
    [] op \in { "check_python", "check_npm" } -> 6
    [] op \in { "pip", "npm_install" } -> 7
    [] OTHER -> 8

\* the operations C2 names, with the rank of their last operation and the
\* number of the step they belong to
FatalRank ==
  [ makedirs |-> 1, ensure_git |-> 3, rmtree |-> 4, clone |-> 5,
    check_python |-> 6, check_npm |-> 6, pip |-> 7, npm_install |-> 7 ]
FatalStep ==
  [ makedirs |-> 1, ensure_git |-> 2, rmtree |-> 3, clone |-> 3,
    check_python |-> 4, check_npm |-> 4, pip |-> 4, npm_install |-> 4 ]

\* C2: once workspace creation, ensure_git, the removal of the stale
\* directory, the clone command, the tool check or the install command has
\* failed, the workflow halts: its step is never completed, no operation that
\* comes later in the workflow is performed, and operations are never
\* performed out of the order of the steps.
C2_FailureHalts ==
  /\ \A i \in 1 .. Len(ops) - 1 : OpRank(ops[i]) <= OpRank(ops[i + 1])
  /\ \A f \in failed \cap DOMAIN FatalRank :
       /\ pc \in { "aborted" } \cup RetSites
       /\ step_idx < FatalStep[f]
       /\ \A i \in 1 .. Len(ops) : OpRank(ops[i]) <= FatalRank[f]
       /\ ~doneMsg

\* the install command failed on both attempts and the workflow has returned
C2_Witness ==
  /\ "pip" \in failed
  /\ pc = "aborted"
  /\ step_idx = 3
  /\ ops[Len(ops)] = "pip"

\* C3: "Gotowe!" is logged and step 5/5 reached only when every operation of
\* the five steps succeeded: an entry file was resolved or npm start chosen,
\* and the run command's final outcome was exit status 0.
C3_DoneOnlyOnFullSuccess ==
  doneMsg \/ step_idx = Len(WORKFLOW_STEPS) =>
    /\ failed = {}
    /\ InOps("python_entry") \/ InOps("npm_start")

\* C6: every launch of the clone command finds no directory WORKDIR/repo_name:
\* a directory that existed was removed first, a failed removal ends the
\* workflow without any launch of the clone, and after a completed clone step
\* the directory is the one the clone created.
C6_FreshClone ==
  /\ pc = "run_cmd" /\ cmd = "clone" => TargetState(repo_name) = "absent"
  /\ "rmtree" \in failed => pc = "aborted" /\ ~InOps("clone") /\ step_idx = 2
  /\ step_idx >= 3 => TargetState(repo_name) = "fresh"

\* C7: when the cloned directory holds neither requirements.txt nor
\* package.json the workflow returns in step 4 with the detection error
\* reported: no tool check, no install command and no run command is
\* launched, and "Gotowe!" is not logged.
C7_NoManifestAborts ==
  step_idx >= 3 /\ ~req /\ ~pkg /\ pc # "install_deps" =>
    /\ pc = "aborted"
    /\ "no_stack" \in errs
    /\ step_idx = 3
    /\ ops[Len(ops)] = "clone"
    /\ ~doneMsg

\* the clone succeeded, no manifest was found, the workflow has returned
C7_Witness ==
  /\ step_idx = 3
  /\ target = "fresh"
  /\ ~req /\ ~pkg
  /\ pc = "aborted"
  /\ "no_stack" \in errs

Downloads == { "download_ok", "download_exc" }
InstallerRuns == { "installer_exit0", "installer_nonzero", "installer_exc" }

\* C9: install_git downloads at most MAX_ATTEMPTS times; when it returns
\* failure after an installer run that exited non-zero, MAX_ATTEMPTS installer
\* runs have been made (failed downloads use up no install attempt); and when
\* it returns True the temporary installer file has been removed.
C9_InstallFullyRetried ==
  /\ CountOps(Downloads) <= MAX_ATTEMPTS
  /\ "ensure_git" \in failed /\ ops[Len(ops)] = "installer_nonzero"
       => CountOps(InstallerRuns) = MAX_ATTEMPTS
  /\ step_idx >= 2 /\ InOps("download_ok") => ~tempFile

\* C10: when python (npm) is not on the path, ensure_python (ensure_npm)
\* reports the error and returns False having done nothing but the check,
\* and the workflow returns without launching the install command.
C10_MissingToolNoSideEffect ==
  /\ InOps("check_python") /\ ~onPath["python"] =>
       /\ pc = "aborted"
       /\ "python_missing" \in errs
       /\ ops[Len(ops)] = "check_python"
       /\ step_idx = 3 /\ ~doneMsg
  /\ InOps("check_npm") /\ ~onPath["npm"] =>
       /\ pc = "aborted"
       /\ "npm_missing" \in errs
       /\ ops[Len(ops)] = "check_npm"
       /\ step_idx = 3 /\ ~doneMsg

\* a Node project was cloned on a machine without npm
C10_Witness ==
  /\ InOps("check_npm")
  /\ ~onPath["npm"]
  /\ pc = "aborted"
  /\ ~InOps("npm_install")

PythonOps == { "check_python", "pip", "python_entry" }
NodeOps == { "check_npm", "npm_install", "npm_start" }

\* C11: once step 4 has looked at the cloned directory, a directory with
\* requirements.txt is handled as a Python project only (python is checked,
\* never npm, also when package.json exists), one with package.json and no
\* requirements.txt as a Node project only, and one with neither as no
\* project at all.
C11_PythonPrecedence ==
  step_idx >= 3 /\ pc # "install_deps" =>
    /\ req => InOps("check_python") /\ CountOps(NodeOps) = 0
    /\ ~req /\ pkg => InOps("check_npm") /\ CountOps(PythonOps) = 0
    /\ ~req /\ ~pkg => CountOps(PythonOps \cup NodeOps) = 0
    /\ InOps("pip") => req /\ onPath["python"]
    /\ InOps("npm_install") => ~req /\ pkg /\ onPath["npm"]

\* both manifests exist and pip install was launched
C11_Witness ==
  /\ req /\ pkg
  /\ InOps("pip")
  /\ step_idx >= 4

\* find_python_entrypoint has returned in step 5 of a Python project
Resolved == req /\ step_idx >= 4 /\ pc \in { "run_cmd", "run_ret", "done" }

\* C12: the entry file is main.py if it exists, else app.py, else index.py;
\* only when none of the three exists are the *.py files enumerated: a single
\* one is taken without any prompt, and with none there is no entry file, an
\* error is reported and no run command is launched.
C12_EntryOrder ==
  Resolved =>
    IF "main.py" \in pyfiles
    THEN entry_py = << "main.py" >> /\ listing = << >> /\ answer = << >>
    ELSE IF "app.py" \in pyfiles
    THEN entry_py = << "app.py" >> /\ listing = << >> /\ answer = << >>
    ELSE IF "index.py" \in pyfiles
    THEN entry_py = << "index.py" >> /\ listing = << >> /\ answer = << >>
    ELSE IF Cardinality(pyfiles) = 1
    THEN /\ \E f \in pyfiles : entry_py = << f >>
         /\ listing = << >> /\ answer = << >> /\ rejects = 0
    ELSE IF pyfiles = { }
    THEN /\ entry_py = << >>
         /\ "no_entry" \in errs
         /\ ~InOps("python_entry")
         /\ pc = "done"
    ELSE entry_py # << >>

\* app.py and index.py both exist and app.py was run
C12_Witness ==
  /\ pc = "done"
  /\ pyfiles = { "app.py", "index.py" }
  /\ entry_py = << "app.py" >>
  /\ InOps("python_entry")

\* the options displayed are exactly the *.py files, each once
OffersAll ==
  /\ Len(listing) = Cardinality(pyfiles)
  /\ { listing[i] : i \in 1 .. Len(listing) } = pyfiles

\* C13: the prompt is reached only with more than one *.py file and none of
\* the conventional names, and offers exactly those files; every answer that
\* is not a number in 1..n is rejected and the prompt stays, and the prompt is
\* left only on a number k in 1..n, with the k-th displayed file as the entry.
C13_PromptLoop ==
  /\ [](pc = "prompt" =>
          /\ OffersAll
          /\ Len(listing) > 1
          /\ \A i \in 1 .. Len(candidates) : candidates[i] \notin pyfiles)
  /\ [][pc = "prompt" =>
          LET k == ParseInt(answer')
          IN  IF k # << >> /\ k[1] \in 1 .. Len(listing)
              THEN /\ pc' = "run_cmd" /\ cmd' = "python_entry"
                   /\ entry_py' = << listing[k[1]] >>
                   /\ rejects' = rejects
              ELSE /\ pc' = "prompt"
                   /\ rejects' = rejects + 1
                   /\ entry_py' = entry_py /\ listing' = listing
                   /\ ops' = ops]_vars

\* an answer was rejected, then "2" was typed and the second option was run
C13_Witness ==
  /\ pc = "done"
  /\ rejects = 1
  /\ answer = << "2" >>
  /\ Len(listing) = 2
  /\ entry_py = << listing[2] >>
  /\ InOps("python_entry")

\* the URL starts with "http://" or "https://"
HasHttpScheme(u) ==
  \/ StartsWith(u, << "h","t","t","p",":","/","/" >>)
  \/ StartsWith(u, << "h","t","t","p","s",":","/","/" >>)

\* C15: a URL that is empty or does not start with "http://" or "https://"
\* is rejected by main: the workflow is not entered, no tool is checked, no
\* command is launched, and the rejection creates no directory.
C15_RejectsNonHttp ==
  /\ [](pc # "main" /\ ~HasHttpScheme(repo_url) =>
          pc = "rejected" /\ ops = << >> /\ step_idx = 0)
  /\ [][pc' = "rejected" => workdir' = workdir /\ logdir' = logdir]_vars

\* the states in which main has returned
Terminal == { "done", "aborted", "rejected" }

\* position in the program text, larger is earlier; run_cmd is entered from
\* three places
PcRank ==
  CASE pc = "main" -> 15
    [] pc = "prepare" -> 14
    [] pc = "ensure_git" -> 13
    [] pc \in { "ig_download", "ig_install", "ig_remove" } -> 12
    [] pc = "clone_prep" -> 11
    [] pc = "run_cmd" /\ cmd = "clone" -> 10
    [] pc = "clone_ret" -> 9
    [] pc = "install_deps" -> 8
    [] pc = "run_cmd" /\ cmd \in { "pip", "npm_install" } -> 7
    [] pc = "install_ret" -> 6
    [] pc = "run_step" -> 5
    [] pc = "prompt" -> 4
    [] pc = "run_cmd" -> 3
    [] pc = "run_ret" -> 2
    [] OTHER -> 0

\* what the loop at the current position may still do: passes of run_cmd's
\* loop, statements of install_git's loop body, rejected answers
LoopBudget ==
  CASE pc = "run_cmd" -> MAX_ATTEMPTS - attempt
    [] pc = "ig_download" -> 3 * (MAX_ATTEMPTS - attempt) + 2
    [] pc = "ig_install" -> 3 * (MAX_ATTEMPTS - attempt) + 1
    [] pc = "ig_remove" -> 3 * (MAX_ATTEMPTS - attempt)
    [] pc = "prompt" -> MaxRejects - rejects
    [] OTHER -> 0

Measure == 100 * PcRank + LoopBudget

\* C16: every run of do_workflow ends by returning, done or aborted: an
\* exception of a step reaches the handler and is reported instead of
\* leaving do_workflow, every state before the return has a next step, and
\* every step lowers a natural-number measure, so no loop runs for ever
\* (launched processes end; the prompt gets a valid index after at most
\* MaxRejects rejected answers).
C16_Terminates ==
  /\ [](pc # "crashed")
  /\ [](pc \notin Terminal => ENABLED Next)
  /\ [](Measure \in Nat /\ LoopBudget \in 0 .. 99)
  /\ [](pc \in Terminal \ { "rejected" } =>
          (pc = "done") = doneMsg /\ ("exception" \in errs => pc = "aborted"))
  /\ [][Measure' < Measure]_vars

\* os.makedirs(WORKDIR) raised; the handler reported it and do_workflow
\* returned
C16_Witness ==
  /\ pc = "aborted"
  /\ "makedirs" \in failed
  /\ "exception" \in errs
  /\ step_idx = 0

\* a log call has been made (175 in do_workflow, 262 in main): in the run
\* whose log writes all succeed, WORKDIR and LOGDIR exist from then on at
\* every point where the workflow looks at the file system
LogWritten == pc \notin { "main", "prepare" }

\* TargetState in the run whose log writes all succeed
IdealTargetState(name) ==
  CASE Place(name) = "parent" -> "stale"
    [] Place(name) = "root" -> IF workdir \/ LogWritten THEN "stale" ELSE "absent"
    [] Place(name) = "logs" -> IF logdir \/ LogWritten THEN "stale" ELSE "absent"
    [] OTHER -> target

\* CwdExists in the run whose log writes all succeed
IdealCwdExists ==
  IF cmd = "clone" THEN workdir \/ LogWritten
  ELSE IdealTargetState(repo_name) # "absent"

\* C17: failed log writes do not change what the workflow does: where it
\* reads the file system to decide (the existence test before the removal,
\* the working directory a command is launched in), it finds what it finds in
\* the run whose log writes all succeed, so the operations performed and the
\* values returned are the same.
C17_LogFailuresInvisible ==
  /\ pc = "clone_prep" =>
        Exists(TargetState(parse_repo_name(repo_url)))
          = Exists(IdealTargetState(parse_repo_name(repo_url)))
  /\ pc = "run_cmd" => CwdExists = IdealCwdExists

\* C18: whatever URL main accepted, the directory removed in the clone step
\* lies properly inside WORKDIR: the repository name is not empty and is not
\* "." or "..", so neither WORKDIR itself nor its parent is removed.
C18_RemovalInsideWorkspace ==
  InOps("rmtree") =>
    /\ repo_name # << >>
    /\ repo_name # << "." >>
    /\ repo_name # << ".", "." >>
    /\ Place(repo_name) \notin { "root", "parent" }

\* C19: the command of the run step belongs to the stack installed in step 4,
\* also when the manifests change in between: a Python entry file is run only
\* after a pip install that succeeded, npm start only after npm was found and
\* npm install succeeded; and no run ends with the done message without a run
\* command having been selected.
C19_StackFixed ==
  /\ InOps("python_entry") =>
        InOps("check_python") /\ InOps("pip") /\ "pip" \notin failed
  /\ InOps("npm_start") =>
        /\ InOps("check_npm") /\ onPath["npm"]
        /\ InOps("npm_install") /\ "npm_install" \notin failed
  /\ doneMsg => InOps("python_entry") \/ InOps("npm_start")

\* C20: install_git fails only on a download error or a failed installer run
\* at the last attempt: once an installer run has exited with 0 there is no
\* further download or installer run and install_git does not return False,
\* also when removing the installer file fails; and every False return
\* follows a reported error.
C20_InstallerSuccessIsFinal ==
  /\ \A i \in 1 .. Len(ops) :
        ops[i] = "installer_exit0" =>
          \A j \in i + 1 .. Len(ops) : ops[j] \notin Downloads \cup InstallerRuns
  /\ InOps("installer_exit0") => "ensure_git" \notin failed
  /\ "ensure_git" \in failed =>
        /\ ops[Len(ops)] \in { "download_exc", "installer_nonzero", "installer_exc" }
        /\ errs \cap { "git_exception", "git_install_exit" } # { }

\* ----------------------------------------- parse_repo_name on its own
InitParse ==
  /\ pc = "parse"
  /\ repo_url \in ParseUrls
  /\ argv1 = repo_url
  /\ step_idx = 0
  /\ progressLog = << >>
  /\ onPath = [t \in Tools |-> FALSE]
  /\ workdir = FALSE
  /\ logdir = FALSE
  /\ repo_name = << >>
  /\ target = "absent"
  /\ req = FALSE
  /\ pkg = FALSE
  /\ pyfiles = {}
  /\ cmd = "none"
  /\ attempt = 0
  /\ attempts = << >>
  /\ ret = << >>
  /\ tempFile = FALSE
  /\ entry_py = << >>
  /\ listing = << >>
  /\ rejects = 0
  /\ answer = << >>
  /\ ops = << >>
  /\ errs = {}
  /\ failed = {}
  /\ doneMsg = FALSE

\* a first call of parse_repo_name(repo_url)
ParseCall ==
  /\ pc = "parse"
  /\ repo_name' = parse_repo_name(repo_url)
  /\ pc' = "parsed"
  /\ UNCHANGED << argv1, repo_url, stepVars, onPath, dirVars, fsVars, cmdVars,
                  tempFile, entry_py, listing, rejects, answer, ops, errs,
                  failed, doneMsg >>

\* a second call with the same argument
ParseAgain ==
  /\ pc = "parsed"
  /\ repo_name' = parse_repo_name(repo_url)
  /\ pc' = "parsed_twice"
  /\ UNCHANGED << argv1, repo_url, stepVars, onPath, dirVars, fsVars, cmdVars,
                  tempFile, entry_py, listing, rejects, answer, ops, errs,
                  failed, doneMsg >>

NextParse ==
  \/ ParseCall
  \/ ParseAgain

SpecParse == InitParse /\ [][NextParse]_vars

\* name is the last segment of url once its trailing slashes are dropped,
\* less one ".git" at its end: url = before . segment . slashes
IsRepoNameOf(name, url) ==
  \E i, j \in 0 .. Len(url) :
    /\ i <= j
    /\ \A k \in j + 1 .. Len(url) : url[k] = "/"
    /\ j > 0 => url[j] # "/"
    /\ \A k \in i + 1 .. j : url[k] # "/"
    /\ i > 0 => url[i] = "/"
    /\ LET segment == SubSeq(url, i + 1, j)
           n == Len(segment)
       IN  IF n >= 4 /\ SubSeq(segment, n - 3, n) = << ".", "g", "i", "t" >>
           THEN name = SubSeq(segment, 1, n - 4)
           ELSE name = segment

\* C14: parse_repo_name returns the last path segment of the URL after its
\* trailing slashes are stripped, with exactly one trailing ".git" removed
\* ("x.git.git" gives "x.git", "x.git/" gives "x"), and a second call with
\* the same URL returns the same name.
C14_LastSegmentOnce ==
  /\ [](pc \in { "parsed", "parsed_twice" } =>
          /\ IsRepoNameOf(repo_name, repo_url)
          /\ repo_url = << "h","t","t","p",":","/","/","h","/",
                           "x",".","g","i","t",".","g","i","t" >>
               => repo_name = << "x",".","g","i","t" >>
          /\ repo_url = << "h","t","t","p",":","/","/","h","/",
                           "x",".","g","i","t","/" >>
               => repo_name = << "x" >>)
  /\ [][pc = "parsed" => repo_name' = repo_name]_vars

\* "http://h/x.git.git" was parsed twice and gave "x.git"
C14_Witness ==
  /\ pc = "parsed_twice"
  /\ repo_url = << "h","t","t","p",":","/","/","h","/",
                   "x",".","g","i","t",".","g","i","t" >>
  /\ repo_name = << "x",".","g","i","t" >>

====
